---- MODULE Spec2Model ----
(***************************************************************************)
(* Voice chatbot backend: the Flask application (app.py), the insights     *)
(* engine (services/insights_engine.py), the store queries                 *)
(* (services/mongodb_service.py) and the speech client                     *)
(* (services/sarvam_service.py).                                           *)
(*                                                                         *)
(* Texts (queries, keywords, names, error messages) are sequences of       *)
(* one-character strings, so that lower-casing and substring tests are     *)
(* computed and not assumed.                                               *)
(***************************************************************************)
EXTENDS Integers, Sequences, FiniteSets, TLC

\* ------------------------------------------------------------------ bounds
\* Longest generated query, in words (the fixed example queries are longer).
MaxWords == 2
\* Longest task list the aggregators are applied to in SpecAgg.
MaxTasks == 2
\* Longest run of equal tasks in a generated task list
MaxRun == 6
\* Most contributor records in a generated store
MaxContributors == 6
\* Most records of a person collection in a generated store
MaxPeople == 2

\* ------------------------------------------------------------------- texts
UpperCase == <<"A", "B", "C", "D", "E", "F", "G", "H", "I", "J", "K", "L", "M", "N", "O", "P", "Q", "R", "S", "T", "U", "V", "W", "X", "Y", "Z">>
LowerCase == <<"a", "b", "c", "d", "e", "f", "g", "h", "i", "j", "k", "l", "m", "n", "o", "p", "q", "r", "s", "t", "u", "v", "w", "x", "y", "z">>

\* str.lower() on one character
LowerChar(c) ==
    IF \E i \in 1..Len(UpperCase) : UpperCase[i] = c
    THEN LowerCase[CHOOSE i \in 1..Len(UpperCase) : UpperCase[i] = c]
    ELSE c

\* str.lower()
Lower(s) == [i \in 1..Len(s) |-> LowerChar(s[i])]

\* Python's `needle in hay` on strings
Contains(needle, hay) ==
    \E i \in 0..(Len(hay) - Len(needle)) :
        SubSeq(hay, i + 1, i + Len(needle)) = needle

\* any(word in text for word in words)
AnyIn(words, text) == \E i \in 1..Len(words) : Contains(words[i], text)

\* " ".join(words)
RECURSIVE Join(_)
Join(ws) ==
    IF ws = <<>> THEN <<>>
    ELSE IF Len(ws) = 1 THEN ws[1]
    ELSE ws[1] \o <<" ">> \o Join(Tail(ws))

\* --------------------------------------------------------- keyword groups
NAME_KEYWORDS == << <<"a", "r", "y", "a", "n">>, <<"r", "i", "t", "w", "i", "k">>, <<"m", "o", "h", "a", "k">>, <<"m", "a", "n", "u">> >>
NAMES == << <<"A", "r", "y", "a", "n">>, <<"R", "i", "t", "w", "i", "k">>, <<"M", "o", "h", "a", "k">>, <<"M", "a", "n", "u">> >>
TEAM_KEYWORDS == << <<"t", "e", "a", "m">>, <<"e", "v", "e", "r", "y", "o", "n", "e">>, <<"a", "l", "l">>, <<"p", "e", "r", "f", "o", "r", "m", "a", "n", "c", "e">> >>
PROJECT_KEYWORDS == << <<"p", "r", "o", "j", "e", "c", "t">>, <<"d", "e", "a", "d", "l", "i", "n", "e">>, <<"t", "r", "a", "c", "k">>, <<"h", "e", "a", "l", "t", "h">>, <<"s", "p", "r", "i", "n", "t">> >>
BLOCKER_KEYWORDS == << <<"b", "l", "o", "c", "k", "e", "r">>, <<"i", "s", "s", "u", "e">>, <<"p", "r", "o", "b", "l", "e", "m">>, <<"s", "t", "u", "c", "k">> >>

\* ------------------------------------------------------------------ inputs
\* Words the generated queries are made of: names in several letter cases,
\* keywords, words that only contain a keyword, words that contain none.
Words ==
    { <<"A", "r", "y", "a", "n">>, <<"R", "I", "T", "W", "I", "K">>, <<"m", "a", "n", "u", "a", "l">>, <<"T", "e", "a", "m">>, <<"c", "a", "l", "l">>, <<"S", "p", "r", "i", "n", "t">>,
      <<"b", "l", "o", "c", "k", "e", "r">>, <<"b", "l", "o", "c", "k", "e", "d", "?">>, <<"t", "i", "s", "s", "u", "e", "s">>, <<"h", "e", "l", "l", "o">> }

WordSeqs == UNION { [1..n -> Words] : n \in 1..MaxWords }

FixedQueries ==
    { Join(<< <<"I", "s">>, <<"A", "r", "y", "a", "n">>, <<"b", "l", "o", "c", "k", "e", "d", "?">> >>),
      Join(<< <<"H", "o", "w">>, <<"i", "s">>, <<"t", "h", "e">>, <<"t", "e", "a", "m">>, <<"p", "e", "r", "f", "o", "r", "m", "i", "n", "g", "?">> >>),
      Join(<< <<"i", "s">>, <<"a", "r", "y", "a", "n">>, <<"a">>, <<"b", "l", "o", "c", "k", "e", "r">>, <<"o", "n">>, <<"t", "h", "e">>, <<"s", "p", "r", "i", "n", "t", "?">> >>),
      Join(<< <<"M", "o", "h", "a", "k">>, <<"o", "r">>, <<"M", "a", "n", "u">>, <<"o", "r">>, <<"R", "i", "t", "w", "i", "k", "?">> >>) }

\* The query texts _gather_context is applied to in SpecGather
QueryTexts == FixedQueries \cup { Join(ws) : ws \in WordSeqs }

\* The query texts of the requests of Spec: the examples and the single words
RequestTexts == FixedQueries \cup Words

\* ------------------------------------------------------------------- store
\* The current time of a request; deadlines are times around it.
Now == 1

\* Python's None
None == [py_none |-> TRUE]

\* dict.get(key, default) on a document
Get(doc, key, default) == IF key \in DOMAIN doc THEN doc[key] ELSE default

\* seq[:n]
Take(seq, n) == SubSeq(seq, 1, IF Len(seq) < n THEN Len(seq) ELSE n)

\* sum(x.get(key, 0) for x in seq)
SumOf(seq, key) ==
    LET acc[i \in 0..Len(seq)] == IF i = 0 THEN 0 ELSE acc[i - 1] + Get(seq[i], key, 0)
    IN acc[Len(seq)]

\* len([t for t in tasks if t.get('status') == s]) (a missing status is written "")
CountStatus(tasks, s) == Len(SelectSeq(tasks, LAMBDA t : Get(t, "status", "") = s))

\* {'name': {'$regex': user_name, '$options': 'i'}}: a case-insensitive
\* partial match of user_name in the document's name
NameMatches(doc, field, user_name) ==
    /\ field \in DOMAIN doc
    /\ Contains(Lower(user_name), Lower(doc[field]))

\* find_one with a case-sensitive match
FindOneByNameCaseSensitive(coll, user_name) ==
    LET hits == SelectSeq(coll, LAMBDA d : "name" \in DOMAIN d /\ Contains(user_name, d.name))
    IN IF hits = <<>> THEN None ELSE Head(hits)

\* collection.find_one({'name': {'$regex': user_name, '$options': 'i'}}): the
\* first matching document, or None
FindOneByName(coll, user_name) ==
    LET hits == SelectSeq(coll, LAMBDA d : NameMatches(d, "name", user_name))
    IN IF hits = <<>> THEN None ELSE Head(hits)

\* The reads a store method attempts: all of them, or those up to and
\* including the first that raises (fail = its position, 0 = none raises).
Attempted(reads, fail) == IF fail = 0 THEN reads ELSE SubSeq(reads, 1, fail)

\* a store method whose except clause raises again
ReturnedReraising(value, sites, error) ==
    [value |-> value, sites |-> sites, error |-> error, raised |-> error]

\* What a store method hands back: its value, the reads it attempted, whether
\* its except clause ran, and whether an exception left the method.
Returned(value, sites, error) ==
    [value |-> value, sites |-> sites, error |-> error, raised |-> FALSE]

\* the deadline test without `and task.get('status') != 'completed'`
DeadlineStepIgnoringStatus(task) ==
    LET d == Get(task, "deadline", [form |-> "absent"]) IN
    IF d.form = "absent" THEN "skip"
    ELSE IF d.form = "bad" THEN "skip"
    ELSE IF d.form = "iso_z" THEN "type_error"
    ELSE IF d.t < Now THEN "overdue"
    ELSE "not_overdue"

\* What the deadline test of one task does (the loop body of the overdue scan).
\* A string deadline is parsed with fromisoformat after 'Z' -> '+00:00'; a
\* string with an offset parses to an aware datetime, and comparing an aware
\* datetime with the naive datetime.now() raises TypeError.
DeadlineStep(task) ==
    LET d == Get(task, "deadline", [form |-> "absent"]) IN
    IF d.form = "absent" THEN "skip"
    ELSE IF d.form = "bad" THEN "skip"
    ELSE IF d.form = "iso_z" THEN "type_error"
    ELSE IF d.t < Now /\ Get(task, "status", "") # "completed" THEN "overdue"
    ELSE "not_overdue"

\* The overdue scan over all tasks, in store order: the overdue tasks found,
\* or raised when a comparison raised.
RECURSIVE OverdueScan(_)
OverdueScan(tasks) ==
    IF tasks = <<>> THEN [raised |-> FALSE, overdue |-> <<>>]
    ELSE LET step == DeadlineStep(Head(tasks)) IN
         IF step = "type_error" THEN [raised |-> TRUE, overdue |-> <<>>]
         ELSE LET rest == OverdueScan(Tail(tasks)) IN
              IF rest.raised THEN rest
              ELSE [raised |-> FALSE,
                    overdue |-> (IF step = "overdue" THEN <<Head(tasks)>> ELSE <<>>) \o rest.overdue]


\* sorted(contributors, key=total_commits, reverse=True): stable, so equal
\* counts keep their store order
\* an insertion that puts a contributor before those of equal count
RECURSIVE InsertByCommitsUnstable(_, _)
InsertByCommitsUnstable(c, sorted) ==
    IF sorted = <<>> THEN <<c>>
    ELSE IF Get(Head(sorted), "total_commits", 0) > Get(c, "total_commits", 0)
         THEN <<Head(sorted)>> \o InsertByCommitsUnstable(c, Tail(sorted))
         ELSE <<c>> \o sorted

RECURSIVE InsertByCommits(_, _)
InsertByCommits(c, sorted) ==
    IF sorted = <<>> THEN <<c>>
    ELSE IF Get(Head(sorted), "total_commits", 0) >= Get(c, "total_commits", 0)
         THEN <<Head(sorted)>> \o InsertByCommits(c, Tail(sorted))
         ELSE <<c>> \o sorted

RECURSIVE SortedByCommits(_)
SortedByCommits(contributors) ==
    IF contributors = <<>> THEN <<>>
    ELSE InsertByCommits(contributors[Len(contributors)],
                         SortedByCommits(SubSeq(contributors, 1, Len(contributors) - 1)))

\* MongoDBService.get_user_status
GetUserStatus(db, user_name, fail) ==
    LET reads == << "us_jira", "us_github", "us_tasks" >> IN
    IF fail # 0 THEN Returned(None, Attempted(reads, fail), TRUE)
    ELSE Returned(
           [name |-> user_name,
            jira |-> FindOneByName(db.jira, user_name),
            github |-> FindOneByName(db.github, user_name),
            tasks |-> SelectSeq(db.tasks, LAMBDA t : NameMatches(t, "assignee_name", user_name))],
           reads, FALSE)

\* MongoDBService.get_team_performance
GetTeamPerformance(db, fail) ==
    LET reads == << "tp_github", "tp_jira", "tp_tasks" >>
        contributors == db.github
        all_tasks == db.tasks
        added == SumOf(contributors, "total_lines_added")
        deleted == SumOf(contributors, "total_lines_deleted")
        completed == CountStatus(all_tasks, "completed")
    IN
    IF fail # 0 THEN Returned(<<>>, Attempted(reads, fail), TRUE)
    ELSE Returned(
           [total_commits |-> SumOf(contributors, "total_commits"),
            total_lines_added |-> added,
            total_lines_deleted |-> deleted,
            total_lines_changed |-> added + deleted,
            top_contributors |-> Take(SortedByCommits(contributors), 5),
            tasks |-> [completed |-> completed,
                       in_progress |-> CountStatus(all_tasks, "in_progress"),
                       pending |-> CountStatus(all_tasks, "pending"),
                       total |-> Len(all_tasks)],
            \* completed / total * 100 as the fraction num/den; 0 for no tasks
            completion_rate |-> IF all_tasks # <<>>
                                THEN [num |-> completed * 100, den |-> Len(all_tasks)]
                                ELSE [num |-> 0, den |-> 1]],
           reads, FALSE)

\* MongoDBService.get_project_health
GetProjectHealth(db, fail) ==
    LET reads == << "ph_tasks" >>
        all_tasks == db.tasks
        completed == CountStatus(all_tasks, "completed")
        total == Len(all_tasks)
        scan == OverdueScan(all_tasks)
    IN
    IF fail # 0 THEN Returned([status |-> "error"], Attempted(reads, fail), TRUE)
    ELSE IF all_tasks = <<>> THEN Returned([status |-> "no_data"], reads, FALSE)
    ELSE IF scan.raised THEN Returned([status |-> "error"], reads, TRUE)
    ELSE Returned(
           [total_tasks |-> total,
            completed |-> completed,
            in_progress |-> CountStatus(all_tasks, "in_progress"),
            pending |-> CountStatus(all_tasks, "pending"),
            completion_percentage |-> [num |-> completed * 100, den |-> total],
            overdue_count |-> Len(scan.overdue),
            overdue_tasks |-> Take(scan.overdue, 5),
            \* completion_percentage > 60
            status |-> IF completed * 100 > 60 * total THEN "on_track" ELSE "at_risk"],
           reads, FALSE)

\* The store-side filter of get_blockers:
\* priority in [high, critical] and status in [pending, blocked]
HighPriorityPending(t) ==
    /\ Get(t, "priority", "") \in {"high", "critical"}
    /\ Get(t, "status", "") \in {"pending", "blocked"}

BlockerEntry(type, task, severity) == [type |-> type, task |-> task, severity |-> severity]

\* blockers.append(...) for each task of a list
MapBlockers(tasks, type, severity) ==
    [i \in 1..Len(tasks) |-> BlockerEntry(type, tasks[i], severity)]

\* MongoDBService.get_blockers
GetBlockers(db, fail) ==
    LET reads == << "bl_filtered", "bl_tasks" >>
        high_priority_pending == SelectSeq(db.tasks, HighPriorityPending)
        scan == OverdueScan(db.tasks)
    IN
    IF fail # 0 THEN Returned(<<>>, Attempted(reads, fail), TRUE)
    ELSE IF scan.raised THEN Returned(<<>>, reads, TRUE)
    ELSE Returned(
           Take(MapBlockers(high_priority_pending, "high_priority_pending", "high")
                  \o MapBlockers(scan.overdue, "overdue", "medium"), 10),
           reads, FALSE)

\* MongoDBService.get_individual_contribution
GetIndividualContribution(db, user_name, fail) ==
    LET reads == << "ic_github", "ic_jira" >>
        github_user == FindOneByName(db.github, user_name)
        jira_user == FindOneByName(db.jira, user_name)
        tickets == Get(jira_user, "tickets", <<>>)
    IN
    IF fail # 0 THEN Returned([status |-> "error"], Attempted(reads, fail), TRUE)
    ELSE IF github_user = None /\ jira_user = None
         THEN Returned([status |-> "user_not_found"], reads, FALSE)
    ELSE Returned(
           [name |-> user_name,
            github |-> IF github_user = None THEN <<>>
                       ELSE [total_commits |-> Get(github_user, "total_commits", 0),
                             lines_added |-> Get(github_user, "total_lines_added", 0),
                             lines_deleted |-> Get(github_user, "total_lines_deleted", 0),
                             total_lines_changed |-> Get(github_user, "total_lines_changed", 0),
                             recent_commits |-> Take(Get(github_user, "commits", <<>>), 5)],
            jira |-> IF jira_user = None THEN <<>>
                     ELSE [total_tickets |-> Len(tickets),
                           completed |-> CountStatus(tickets, "Done"),
                           in_progress |-> CountStatus(tickets, "In Progress"),
                           recent_tickets |-> Take(tickets, 5)]],
           reads, FALSE)

\* ---------------------------------------------------------- insights engine
\* Context keys of the four categories
CategoryKeys ==
    [individual |-> {"user_status", "individual_contribution"},
     team_performance |-> {"team_performance"},
     project_health |-> {"project_health"},
     blockers |-> {"blockers"}]

Categories == DOMAIN CategoryKeys

\* The keyword test of each `if` of _gather_context
NameGroupMatches(query_lower) == AnyIn(NAME_KEYWORDS, query_lower)
\* the team/performance test with the keyword 'all' left out
TeamGroupMatchesWithoutAll(query_lower) ==
    AnyIn(<< TEAM_KEYWORDS[1], TEAM_KEYWORDS[2], TEAM_KEYWORDS[4] >>, query_lower)

TeamGroupMatches(query_lower) == AnyIn(TEAM_KEYWORDS, query_lower)
ProjectGroupMatches(query_lower) == AnyIn(PROJECT_KEYWORDS, query_lower)
\* the blocker test on the stem 'block' as well
BlockerGroupMatchesStem(query_lower) ==
    AnyIn(BLOCKER_KEYWORDS, query_lower) \/ Contains(<<"b", "l", "o", "c", "k">>, query_lower)

BlockerGroupMatches(query_lower) == AnyIn(BLOCKER_KEYWORDS, query_lower)

\* the name loop without its break: the last name that occurs wins
ResolvedNameLast(query_lower) ==
    LET hits == { i \in 1..Len(NAMES) : Contains(Lower(NAMES[i]), query_lower) }
    IN NAMES[CHOOSE i \in hits : \A j \in hits : i >= j]

\* for name in NAMES: if name.lower() in query_lower: ...; break
ResolvedName(query_lower) ==
    LET hits == { i \in 1..Len(NAMES) : Contains(Lower(NAMES[i]), query_lower) }
    IN NAMES[CHOOSE i \in hits : \A j \in hits : i <= j]

\* context[key] = value
Put(ctx, key, value) ==
    [k \in DOMAIN ctx \cup {key} |-> IF k = key THEN value ELSE ctx[k]]

\* The fixed texts process_query can return besides the generated one
QUOTA_HI == "quota_exceeded_hi"
QUOTA_EN == "quota_exceeded_en"
FALLBACK_HI == "fallback_hi"
FALLBACK_EN == "fallback_en"
GENERATED == "generated_text"

\* str.startswith
StartsWith(s, prefix) == Len(s) >= Len(prefix) /\ SubSeq(s, 1, Len(prefix)) = prefix

\* InsightsEngine._get_quota_exceeded_response
GetQuotaExceededResponse(language) ==
    IF StartsWith(language, <<"h", "i">>) THEN QUOTA_HI ELSE QUOTA_EN

\* InsightsEngine._get_fallback_response
GetFallbackResponse(language) ==
    IF language = <<"h", "i">> THEN FALLBACK_HI ELSE FALLBACK_EN

\* the quota test without .lower()
IsQuotaErrorCaseSensitive(error_msg) ==
    Contains(<<"4", "2", "9">>, error_msg) \/ Contains(<<"q", "u", "o", "t", "a">>, error_msg)

\* '429' in error_msg or 'quota' in error_msg.lower()
IsQuotaError(error_msg) ==
    Contains(<<"4", "2", "9">>, error_msg) \/ Contains(<<"q", "u", "o", "t", "a">>, Lower(error_msg))

\* str(e) of the AttributeError raised by `content.strip()` on a missing content
NoContentMessage == <<"'", "N", "o", "n", "e", "T", "y", "p", "e", "'", " ", "o", "b", "j", "e", "c", "t", " ", "h", "a", "s", " ", "n", "o", " ", "a", "t", "t", "r", "i", "b", "u", "t", "e", " ", "'", "s", "t", "r", "i", "p", "'">>

\* What the language-model call can do: return a text, return a completion
\* with no content, or raise with a message.
LlmOutcomes ==
    { [kind |-> "text"], [kind |-> "no_content"] }
    \cup { [kind |-> "error", msg |-> m] :
             m \in { <<"E", "r", "r", "o", "r", " ", "c", "o", "d", "e", ":", " ", "4", "2", "9", " ", "-", " ", "r", "a", "t", "e", " ", "l", "i", "m", "i", "t", " ", "r", "e", "a", "c", "h", "e", "d">>,
                     <<"Q", "u", "o", "t", "a", " ", "e", "x", "c", "e", "e", "d", "e", "d", " ", "f", "o", "r", " ", "m", "o", "d", "e", "l">>,
                     <<"y", "o", "u", " ", "e", "x", "c", "e", "e", "d", "e", "d", " ", "y", "o", "u", "r", " ", "c", "u", "r", "r", "e", "n", "t", " ", "q", "u", "o", "t", "a">>,
                     <<"C", "o", "n", "n", "e", "c", "t", "i", "o", "n", " ", "e", "r", "r", "o", "r", ".">>,
                     <<"E", "r", "r", "o", "r", " ", "c", "o", "d", "e", ":", " ", "5", "0", "0", " ", "-", " ", "i", "n", "t", "e", "r", "n", "a", "l", " ", "e", "r", "r", "o", "r">> } }

\* a language-model call tried again after it raised
LlmCallsRetrying(outcome) ==
    IF outcome.kind = "error" THEN << "llm", "llm" >> ELSE << "llm" >>

\* The calls of the language model one _generate_response makes
LlmCalls(outcome) == << "llm" >>

\* InsightsEngine._generate_response: the text returned for an outcome of the
\* language-model call
GenerateResponse(outcome, language) ==
    IF outcome.kind = "text" THEN GENERATED
    ELSE LET error_msg == IF outcome.kind = "error" THEN outcome.msg ELSE NoContentMessage
         IN IF IsQuotaError(error_msg) THEN GetQuotaExceededResponse(language)
            ELSE GetFallbackResponse(language)

\* language.split('-')[0]
RECURSIVE LangCode(_)
LangCode(language) ==
    IF language = <<>> \/ Head(language) = "-" THEN <<>>
    ELSE <<Head(language)>> \o LangCode(Tail(language))

\* ------------------------------------------------------------ store contents
\* A store with contributor, ticket and task records, none of them Aryan's
PopulatedStore ==
    [github |-> << [name |-> <<"r", "i", "t", "w", "i", "k", "-", "d", "e", "v">>, total_commits |-> 10, total_lines_added |-> 5,
                    total_lines_deleted |-> 2, total_lines_changed |-> 7, commits |-> <<1, 2>>],
                   [name |-> <<"M", "o", "h", "a", "k", " ", "J">>, total_commits |-> 5, total_lines_added |-> 1,
                    total_lines_deleted |-> 0, total_lines_changed |-> 1, commits |-> <<3>>] >>,
     jira |-> << [name |-> <<"R", "i", "t", "w", "i", "k", " ", "M">>,
                  tickets |-> << [key |-> 1, status |-> "Done"],
                                 [key |-> 2, status |-> "In Progress"] >>] >>,
     tasks |-> << [id |-> 1, status |-> "pending", priority |-> "high",
                   deadline |-> [form |-> "native", t |-> 0], assignee_name |-> <<"R", "i", "t", "w", "i", "k", " ", "M">>],
                  [id |-> 2, status |-> "completed", priority |-> "critical",
                   deadline |-> [form |-> "native", t |-> 0], assignee_name |-> <<"M", "o", "h", "a", "k", " ", "J">>],
                  [id |-> 3, status |-> "in_progress", priority |-> "low",
                   deadline |-> [form |-> "iso", t |-> 2], assignee_name |-> <<"M", "a", "n", "u">>] >>]

EmptyStore == [github |-> <<>>, jira |-> <<>>, tasks |-> <<>>]

Stores == { PopulatedStore, EmptyStore }

\* Task records the aggregators are applied to
Statuses == { "pending", "in_progress", "completed", "blocked" }
Priorities == { "low", "normal", "high", "critical" }

\* Deadlines: absent, an unparseable string, an ISO string with a trailing 'Z',
\* an ISO string without offset, a native timestamp; t is the time it denotes
Deadlines ==
    { [form |-> "absent"], [form |-> "bad"], [form |-> "iso_z", t |-> 0],
      [form |-> "iso", t |-> 0] }
    \cup { [form |-> "native", t |-> t] : t \in {0, 1, 2} }

\* Every status with every priority (deadline past), and every status with
\* every deadline (priority normal): the priority of a task and its deadline
\* are read by different tests
TaskRecords ==
    { [status |-> s, priority |-> p, deadline |-> [form |-> "native", t |-> 0]] :
        s \in Statuses, p \in Priorities }
    \cup { [status |-> s, priority |-> "normal", deadline |-> d] :
             s \in Statuses, d \in Deadlines }

\* A task list as the store returns it: a task's id is its place in the store
Numbered(l) ==
    [i \in 1..Len(l) |-> [id |-> i, status |-> l[i].status, priority |-> l[i].priority,
                          deadline |-> l[i].deadline]]

\* Tasks that long task lists are made of: one that is only high-priority
\* pending, one that is high-priority pending and overdue, one that is only
\* overdue, and a completed one
RunRecords ==
    { [status |-> "blocked", priority |-> "critical", deadline |-> [form |-> "absent"]],
      [status |-> "pending", priority |-> "high", deadline |-> [form |-> "native", t |-> 0]],
      [status |-> "in_progress", priority |-> "low", deadline |-> [form |-> "iso", t |-> 0]],
      [status |-> "completed", priority |-> "normal", deadline |-> [form |-> "absent"]] }

\* k copies of a task
Repeat(task, k) == [i \in 1..k |-> task]

\* ------------------------------------------------------------------- state
VARIABLES
    env,            \* the environment at startup: credentials set, store reachable
    store,          \* the documents of the store
    pc,             \* where the process is: startup, idle, or the step of a request
    endpoint,       \* the endpoint of the request being handled
    query,          \* the query of the request (the transcript, for a voice chat)
    language,       \* the request's language
    lang,           \* the language process_query is called with
    return_audio,   \* the request's return_audio
    resolved_name,  \* _gather_context's `name` when its loop breaks
    context,        \* _gather_context's context dict
    calls,          \* external calls attempted while handling the request, by call site
    store_errors,   \* store methods whose except clause ran in this request
    llm,            \* what the language-model call of this request did
    response_text,  \* what process_query returned
    tts,            \* what the text_to_speech call of this request did
    reply,          \* the HTTP reply of the request
    agg             \* SpecAgg: the last aggregator applied and what it returned

vars == << env, store, pc, endpoint, query, language, lang, return_audio, resolved_name,
           context, calls, store_errors, llm, response_text, tts, reply, agg >>

request_vars == << endpoint, query, language, lang, return_audio, resolved_name, context,
                   calls, store_errors, llm, response_text, tts, reply >>

\* External call sites: the store reads of each store method, the language
\* model call, and the two speech calls
Sites ==
    { "us_jira", "us_github", "us_tasks", "tp_github", "tp_jira", "tp_tasks",
      "ph_tasks", "bl_filtered", "bl_tasks", "ic_github", "ic_jira",
      "llm", "stt", "tts" }

\* calls after attempting `sites`, in order
Count(cs, sites) ==
    [s \in Sites |-> cs[s] + Cardinality({ i \in 1..Len(sites) : sites[i] = s })]

NoQuery == [kind |-> "none"]
NoReply == [code |-> 0]

QueryLanguages == { <<"e", "n">>, <<"h", "i">>, <<"e", "n", "-", "I", "N">>, <<"h", "i", "-", "I", "N">> }
VoiceLanguages == { <<"e", "n", "-", "I", "N">>, <<"h", "i", "-", "I", "N">> }

\* The query of a request body: a text, or a JSON value that is no text
Queries == { [kind |-> "text", chars |-> q] : q \in RequestTexts } \cup { [kind |-> "number"] }

FreshRequest ==
    /\ endpoint = ""
    /\ query = NoQuery
    /\ language = <<>>
    /\ lang = <<>>
    /\ return_audio = FALSE
    /\ resolved_name = <<>>
    /\ context = <<>>
    /\ calls = [s \in Sites |-> 0]
    /\ store_errors = {}
    /\ llm = [kind |-> "none"]
    /\ response_text = ""
    /\ tts = "none"
    /\ reply = NoReply

Init ==
    /\ env \in [sarvam_key : BOOLEAN, mongodb_uri : BOOLEAN, groq_key : BOOLEAN,
                store_up : BOOLEAN]
    /\ store \in Stores
    /\ pc = "init_sarvam"
    /\ FreshRequest
    /\ agg = [op |-> "none"]

\* ----------------------------------------------------------------- startup
\* sarvam_service = SarvamService()
InitSarvam ==
    /\ pc = "init_sarvam"
    /\ pc' = IF env.sarvam_key THEN "init_mongodb" ELSE "crashed"
    /\ UNCHANGED << env, store, request_vars, agg >>

\* mongodb_service = MongoDBService(): a missing URI raises; MongoClient(uri)
\* sends nothing to the server, so an unreachable store raises only when
\* resolving the URI itself fails (a mongodb+srv seed list)
InitMongoDB ==
    /\ pc = "init_mongodb"
    /\ \E client_raises \in (IF env.store_up THEN {FALSE} ELSE BOOLEAN) :
         pc' = IF env.mongodb_uri /\ ~client_raises THEN "init_insights" ELSE "crashed"
    /\ UNCHANGED << env, store, request_vars, agg >>

\* insights_engine = InsightsEngine(mongodb_service): Groq(api_key=None) raises
InitInsights ==
    /\ pc = "init_insights"
    /\ pc' = IF env.groq_key THEN "idle" ELSE "crashed"
    /\ UNCHANGED << env, store, request_vars, agg >>

\* The process is up and between requests
Serving == pc = "idle"

\* A request starts: the locals of the previous one are gone
Begin(ep, q, l, lc, ra) ==
    /\ endpoint' = ep
    /\ query' = q
    /\ language' = l
    /\ lang' = lc
    /\ return_audio' = ra
    /\ resolved_name' = <<>>
    /\ context' = <<>>
    /\ calls' = [s \in Sites |-> 0]
    /\ store_errors' = {}
    /\ llm' = [kind |-> "none"]
    /\ response_text' = ""
    /\ tts' = "none"

\* --------------------------------------------------------------- endpoints
\* GET /api/health
HealthCheck ==
    /\ Serving
    /\ Begin("health", NoQuery, <<>>, <<>>, FALSE)
    /\ reply' = [code |-> 200, status |-> "healthy", mongodb |-> "connected"]
    /\ pc' = "replied"
    /\ UNCHANGED << env, store, agg >>

\* POST /api/insights/query, up to the call of insights_engine.process_query
ReceiveQuery ==
    /\ Serving
    /\ \/ /\ Begin("query", NoQuery, <<>>, <<>>, FALSE)
          /\ reply' = [code |-> 400, error |-> "No query provided"]
          /\ pc' = "replied"
       \/ \E q \in Queries, l \in QueryLanguages, ra \in BOOLEAN :
            /\ Begin("query", q, l, l, ra)
            /\ reply' = NoReply
            /\ pc' = "gather_individual"
    /\ UNCHANGED << env, store, agg >>

\* POST /api/voice/chat, up to the call of sarvam_service.speech_to_text
ReceiveVoiceChat ==
    /\ Serving
    /\ \/ /\ Begin("voice_chat", NoQuery, <<>>, <<>>, FALSE)
          /\ reply' = [code |-> 400, error |-> "No audio file provided"]
          /\ pc' = "replied"
       \/ \E l \in VoiceLanguages :
            /\ Begin("voice_chat", NoQuery, l, LangCode(l), FALSE)
            /\ reply' = NoReply
            /\ pc' = "stt"
    /\ UNCHANGED << env, store, agg >>

\* SarvamService.speech_to_text as voice_chat uses it: a transcript, or None
\* (non-200 status, no transcript in the payload, an exception)
SpeechToText ==
    /\ pc = "stt"
    /\ calls' = Count(calls, << "stt" >>)
    /\ \/ /\ reply' = [code |-> 500, error |-> "Transcription failed"]
          /\ pc' = "replied"
          /\ UNCHANGED query
       \/ \E q \in RequestTexts :
            /\ query' = [kind |-> "text", chars |-> q]
            /\ pc' = "gather_individual"
            /\ UNCHANGED reply
    /\ UNCHANGED << env, store, endpoint, language, lang, return_audio, resolved_name,
                    context, store_errors, llm, response_text, tts, agg >>

\* ------------------------------------------------------------ process_query
\* Which read of a store method raises (0: none). Every read of an unreachable
\* store raises; a read of a reachable store may still fail.
FailChoices(n) == IF env.store_up THEN 0..n ELSE {1}

\* The state of _gather_context after one store method returned r for `key`
Gathered(ctx, cs, errs, key, method, r) ==
    [context |-> IF r.raised THEN ctx ELSE Put(ctx, key, r.value),
     calls |-> Count(cs, r.sites),
     errors |-> IF r.error THEN errs \cup {method} ELSE errs,
     raised |-> r.raised]

\* One `if` block of _gather_context is over: go on to the next, or, when an
\* exception left a store method, to process_query's except clause
Commit(g, next) ==
    /\ context' = g.context
    /\ calls' = g.calls
    /\ store_errors' = g.errors
    /\ IF g.raised
       THEN /\ response_text' = GetFallbackResponse(lang)
            /\ pc' = "pq_done"
       ELSE /\ pc' = next
            /\ UNCHANGED response_text

Skip(next) ==
    /\ pc' = next
    /\ UNCHANGED << context, calls, store_errors, response_text >>

\* query.lower() and the person-name block
GatherIndividual ==
    /\ pc = "gather_individual"
    /\ IF query.kind # "text"
       THEN \* query.lower() raises; process_query's except clause answers
            /\ response_text' = GetFallbackResponse(lang)
            /\ pc' = "pq_done"
            /\ UNCHANGED << resolved_name, context, calls, store_errors >>
       ELSE IF ~NameGroupMatches(Lower(query.chars))
       THEN Skip("gather_team") /\ UNCHANGED resolved_name
       ELSE \E f1 \in FailChoices(3), f2 \in FailChoices(2) :
              LET name == ResolvedName(Lower(query.chars))
                  g1 == Gathered(context, calls, store_errors, "user_status",
                                 "get_user_status", GetUserStatus(store, name, f1))
                  g2 == IF g1.raised THEN g1
                        ELSE Gathered(g1.context, g1.calls, g1.errors,
                                      "individual_contribution", "get_individual_contribution",
                                      GetIndividualContribution(store, name, f2))
              IN Commit(g2, "gather_team") /\ resolved_name' = name
    /\ UNCHANGED << env, store, endpoint, query, language, lang, return_audio, llm, tts, reply, agg >>

\* the team/performance block
GatherTeam ==
    /\ pc = "gather_team"
    /\ IF ~TeamGroupMatches(Lower(query.chars)) THEN Skip("gather_project")
       ELSE \E f \in FailChoices(3) :
              Commit(Gathered(context, calls, store_errors, "team_performance",
                              "get_team_performance", GetTeamPerformance(store, f)),
                     "gather_project")
    /\ UNCHANGED << env, store, endpoint, query, language, lang, return_audio, resolved_name,
                    llm, tts, reply, agg >>

\* the project/health block
GatherProject ==
    /\ pc = "gather_project"
    /\ IF ~ProjectGroupMatches(Lower(query.chars)) THEN Skip("gather_blockers")
       ELSE \E f \in FailChoices(1) :
              Commit(Gathered(context, calls, store_errors, "project_health",
                              "get_project_health", GetProjectHealth(store, f)),
                     "gather_blockers")
    /\ UNCHANGED << env, store, endpoint, query, language, lang, return_audio, resolved_name,
                    llm, tts, reply, agg >>

\* the blocker block
GatherBlockers ==
    /\ pc = "gather_blockers"
    /\ IF ~BlockerGroupMatches(Lower(query.chars)) THEN Skip("gather_default")
       ELSE \E f \in FailChoices(2) :
              Commit(Gathered(context, calls, store_errors, "blockers",
                              "get_blockers", GetBlockers(store, f)),
                     "gather_default")
    /\ UNCHANGED << env, store, endpoint, query, language, lang, return_audio, resolved_name,
                    llm, tts, reply, agg >>

\* `if context` for `if not context`
ContextIsEmptyInverted(ctx) == DOMAIN ctx # {}

\* `if not context`
ContextIsEmpty(ctx) == DOMAIN ctx = {}

\* the general overview when no block added anything
GatherDefault ==
    /\ pc = "gather_default"
    /\ IF ~ContextIsEmpty(context) THEN Skip("generate")
       ELSE \E f1 \in FailChoices(3), f2 \in FailChoices(1) :
              LET g1 == Gathered(context, calls, store_errors, "team_performance",
                                 "get_team_performance", GetTeamPerformance(store, f1))
                  g2 == IF g1.raised THEN g1
                        ELSE Gathered(g1.context, g1.calls, g1.errors, "project_health",
                                      "get_project_health", GetProjectHealth(store, f2))
              IN Commit(g2, "generate")
    /\ UNCHANGED << env, store, endpoint, query, language, lang, return_audio, resolved_name,
                    llm, tts, reply, agg >>

\* _generate_response: the language-model call and its except clause
Generate ==
    /\ pc = "generate"
    /\ \E outcome \in LlmOutcomes :
         /\ llm' = outcome
         /\ calls' = Count(calls, LlmCalls(outcome))
         /\ response_text' = GenerateResponse(outcome, lang)
    /\ pc' = "pq_done"
    /\ UNCHANGED << env, store, endpoint, query, language, lang, return_audio, resolved_name,
                    context, store_errors, tts, reply, agg >>

\* ------------------------------------------------- after process_query
\* SarvamService.text_to_speech: audio bytes, or None on a non-200 status, a
\* payload without audio, or an exception (network error, timeout)
TtsOutcomes == { "audio", "http_error", "no_audio", "exception" }

\* The rest of POST /api/insights/query
QueryReply(text, ra, outcome) ==
    IF ra /\ outcome = "audio"
    THEN [code |-> 200, response |-> text, audio |-> TRUE]
    ELSE [code |-> 200, response |-> text, audio |-> FALSE]

\* The rest of POST /api/voice/chat
VoiceChatReply(text, outcome) ==
    IF outcome # "audio"
    THEN [code |-> 500, error |-> "Speech synthesis failed"]
    ELSE [code |-> 200, response |-> text, audio |-> TRUE]

QueryRespond ==
    /\ pc = "pq_done"
    /\ endpoint = "query"
    /\ IF return_audio
       THEN \E outcome \in TtsOutcomes :
              /\ calls' = Count(calls, << "tts" >>)
              /\ tts' = outcome
              /\ reply' = QueryReply(response_text, return_audio, outcome)
       ELSE /\ reply' = QueryReply(response_text, return_audio, "none")
            /\ UNCHANGED << calls, tts >>
    /\ pc' = "replied"
    /\ UNCHANGED << env, store, endpoint, query, language, lang, return_audio, resolved_name,
                    context, store_errors, llm, response_text, agg >>

VoiceChatRespond ==
    /\ pc = "pq_done"
    /\ endpoint = "voice_chat"
    /\ \E outcome \in TtsOutcomes :
         /\ calls' = Count(calls, << "tts" >>)
         /\ tts' = outcome
         /\ reply' = VoiceChatReply(response_text, outcome)
    /\ pc' = "replied"
    /\ UNCHANGED << env, store, endpoint, query, language, lang, return_audio, resolved_name,
                    context, store_errors, llm, response_text, agg >>

\* The handler returns: the reply is sent and the request's locals are gone
Return ==
    /\ pc = "replied"
    /\ pc' = "idle"
    /\ Begin("", NoQuery, <<>>, <<>>, FALSE)
    /\ reply' = NoReply
    /\ UNCHANGED << env, store, agg >>

Next ==
    \/ InitSarvam \/ InitMongoDB \/ InitInsights
    \/ HealthCheck \/ ReceiveQuery \/ ReceiveVoiceChat \/ SpeechToText
    \/ GatherIndividual \/ GatherTeam \/ GatherProject \/ GatherBlockers \/ GatherDefault
    \/ Generate \/ QueryRespond \/ VoiceChatRespond \/ Return

Spec == Init /\ [][Next]_vars

\* ------------------------------------------- context gathering alone
\* _gather_context applied to every query text of QueryTexts
InitGather ==
    /\ env \in [sarvam_key : {TRUE}, mongodb_uri : {TRUE}, groq_key : {TRUE},
                store_up : BOOLEAN]
    /\ store \in Stores
    /\ pc = "gather_individual"
    /\ endpoint = "query"
    /\ query \in { [kind |-> "text", chars |-> q] : q \in QueryTexts }
    /\ language = <<"e", "n">>
    /\ lang = <<"e", "n">>
    /\ return_audio = FALSE
    /\ resolved_name = <<>>
    /\ context = <<>>
    /\ calls = [s \in Sites |-> 0]
    /\ store_errors = {}
    /\ llm = [kind |-> "none"]
    /\ response_text = ""
    /\ tts = "none"
    /\ reply = NoReply
    /\ agg = [op |-> "none"]

NextGather ==
    GatherIndividual \/ GatherTeam \/ GatherProject \/ GatherBlockers \/ GatherDefault

SpecGather == InitGather /\ [][NextGather]_vars

\* ------------------------------------------------ the aggregators alone
\* The store methods applied to task lists: every list of up to MaxTasks task
\* records, and long lists (a run of equal tasks, one task record, a second run)
InitAgg ==
    /\ env = [sarvam_key |-> TRUE, mongodb_uri |-> TRUE, groq_key |-> TRUE, store_up |-> TRUE]
    /\ \/ \E n \in 0..MaxTasks : \E l \in [1..n -> TaskRecords] :
            store = [github |-> <<>>, jira |-> <<>>, tasks |-> Numbered(l)]
       \/ \E a \in RunRecords, b \in RunRecords, m \in TaskRecords :
            \E i \in 1..MaxRun, j \in 0..MaxRun :
              store = [github |-> <<>>, jira |-> <<>>,
                       tasks |-> Numbered(Repeat(a, i) \o <<m>> \o Repeat(b, j))]
    /\ pc = "aggregate"
    /\ FreshRequest
    /\ agg = [op |-> "none"]

AggProjectHealth ==
    /\ pc = "aggregate"
    /\ agg.op = "none"
    /\ \E f \in FailChoices(1) :
         agg' = [op |-> "get_project_health", fail |-> f, out |-> GetProjectHealth(store, f)]
    /\ UNCHANGED << env, store, pc, request_vars >>

AggBlockers ==
    /\ pc = "aggregate"
    /\ agg.op = "none"
    /\ \E f \in FailChoices(2) :
         agg' = [op |-> "get_blockers", fail |-> f, out |-> GetBlockers(store, f)]
    /\ UNCHANGED << env, store, pc, request_vars >>

AggTeamPerformance ==
    /\ pc = "aggregate"
    /\ agg.op = "none"
    /\ \E f \in FailChoices(3) :
         agg' = [op |-> "get_team_performance", fail |-> f, out |-> GetTeamPerformance(store, f)]
    /\ UNCHANGED << env, store, pc, request_vars >>

NextAgg == AggProjectHealth \/ AggBlockers \/ AggTeamPerformance

SpecAgg == InitAgg /\ [][NextAgg]_vars

\* ------------------------------------------- team performance alone
\* Commit counts of a contributor record; NoCount stands for a record without
\* the total_commits field
NoCount == 0 - 1
CommitCounts == { NoCount, 0, 1, 2 }

\* The contributor records of a store, in store order; id is the place in the store
Contributors(l) ==
    [i \in 1..Len(l) |-> IF l[i] = NoCount THEN [id |-> i]
                         ELSE [id |-> i, total_commits |-> l[i]]]

\* get_team_performance applied to every list of up to MaxContributors
\* contributor records
InitContrib ==
    /\ env = [sarvam_key |-> TRUE, mongodb_uri |-> TRUE, groq_key |-> TRUE, store_up |-> TRUE]
    /\ \E n \in 0..MaxContributors : \E l \in [1..n -> CommitCounts] :
         store = [github |-> Contributors(l), jira |-> <<>>, tasks |-> <<>>]
    /\ pc = "aggregate"
    /\ FreshRequest
    /\ agg = [op |-> "none"]

NextContrib == AggTeamPerformance

SpecContrib == InitContrib /\ [][NextContrib]_vars

\* ------------------------------------- individual contribution alone
\* One commit and six of them; one ticket and six of them
FewCommits == <<1>>
ManyCommits == <<1, 2, 3, 4, 5, 6>>
FewTickets == << [key |-> 1, status |-> "Done"] >>
ManyTickets ==
    << [key |-> 1, status |-> "Done"], [key |-> 2, status |-> "In Progress"],
       [key |-> 3, status |-> "To Do"], [key |-> 4, status |-> "Done"],
       [key |-> 5, status |-> "In Progress"], [key |-> 6, status |-> "Done"] >>

\* A contributor record
GithubRecord(n, cs) ==
    [name |-> n, total_commits |-> Len(cs), total_lines_added |-> 3, commits |-> cs]

\* Contributor records: two of one person, and two other persons
GithubRecords ==
    { GithubRecord(<<"A", "R", "Y", "A", "N", " ", "k">>, FewCommits), GithubRecord(<<"A", "R", "Y", "A", "N", " ", "k">>, ManyCommits),
      GithubRecord(<<"r", "i", "t", "w", "i", "k", "-", "d", "e", "v">>, ManyCommits), GithubRecord(<<"B", "o", "b">>, FewCommits) }

\* Ticket records: two of one person, and two other persons
JiraRecords ==
    { [name |-> <<"R", "i", "t", "w", "i", "k", " ", "M">>, tickets |-> FewTickets], [name |-> <<"R", "i", "t", "w", "i", "k", " ", "M">>, tickets |-> ManyTickets],
      [name |-> <<"a", "r", "y", "a", "n">>, tickets |-> ManyTickets], [name |-> <<"B", "o", "b">>, tickets |-> FewTickets] }

\* get_individual_contribution applied, for each name the engine can pass, to
\* every store of up to MaxPeople contributor records and ticket records
InitIndividual ==
    /\ env = [sarvam_key |-> TRUE, mongodb_uri |-> TRUE, groq_key |-> TRUE, store_up |-> TRUE]
    /\ \E n \in 0..MaxPeople, m \in 0..MaxPeople :
         \E g \in [1..n -> GithubRecords], j \in [1..m -> JiraRecords] :
           store = [github |-> g, jira |-> j, tasks |-> <<>>]
    /\ pc = "aggregate"
    /\ FreshRequest
    /\ agg = [op |-> "none"]

AggIndividualContribution ==
    /\ pc = "aggregate"
    /\ agg.op = "none"
    /\ \E i \in 1..Len(NAMES), f \in FailChoices(2) :
         agg' = [op |-> "get_individual_contribution", fail |-> f, user_name |-> NAMES[i],
                 out |-> GetIndividualContribution(store, NAMES[i], f)]
    /\ UNCHANGED << env, store, pc, request_vars >>

NextIndividual == AggIndividualContribution

SpecIndividual == InitIndividual /\ [][NextIndividual]_vars

\* ======================================================== the properties
\* The keyword groups as the specification lists them
SpecKeywords ==
    [individual |-> { <<"a", "r", "y", "a", "n">>, <<"r", "i", "t", "w", "i", "k">>, <<"m", "o", "h", "a", "k">>, <<"m", "a", "n", "u">> },
     team_performance |-> { <<"t", "e", "a", "m">>, <<"e", "v", "e", "r", "y", "o", "n", "e">>, <<"a", "l", "l">>, <<"p", "e", "r", "f", "o", "r", "m", "a", "n", "c", "e">> },
     project_health |-> { <<"p", "r", "o", "j", "e", "c", "t">>, <<"d", "e", "a", "d", "l", "i", "n", "e">>, <<"t", "r", "a", "c", "k">>, <<"h", "e", "a", "l", "t", "h">>, <<"s", "p", "r", "i", "n", "t">> },
     blockers |-> { <<"b", "l", "o", "c", "k", "e", "r">>, <<"i", "s", "s", "u", "e">>, <<"p", "r", "o", "b", "l", "e", "m">>, <<"s", "t", "u", "c", "k">> }]

\* The person names in the specification's enumeration order
SpecNameOrder == << <<"A", "r", "y", "a", "n">>, <<"R", "i", "t", "w", "i", "k">>, <<"M", "o", "h", "a", "k">>, <<"M", "a", "n", "u">> >>

\* A keyword of group c occurs in the lower-cased text
HasKeyword(c, text) == \E k \in SpecKeywords[c] : Contains(k, Lower(text))

\* The groups with a keyword in the text
MatchedGroups(text) == { c \in Categories : HasKeyword(c, text) }

\* The context keys of a set of categories
KeysOf(cs) == UNION { CategoryKeys[c] : c \in cs }

\* _gather_context has returned the context of a text query
GatherDone == pc = "generate" /\ query.kind = "text"

\* C1: a query text with no keyword of any of the four groups (as a substring
\* of its lower-cased form) gathers a payload whose categories are exactly
\* team_performance and project_health.
C1_NoKeywordGathersDefaultPair ==
    (GatherDone /\ MatchedGroups(query.chars) = {})
        => DOMAIN context = {"team_performance", "project_health"}

C1_Witness ==
    /\ GatherDone
    /\ query.chars = <<"h", "e", "l", "l", "o">>
    /\ DOMAIN context = {"team_performance", "project_health"}
    /\ context.project_health.status = "at_risk"

\* C2: a query text that matches at least one group gathers exactly the groups
\* that have a keyword in the lower-cased query, each decided on its own, and
\* the fallback pair is not added.
C2_GathersExactlyMatchedGroups ==
    (GatherDone /\ MatchedGroups(query.chars) # {})
        => /\ DOMAIN context = KeysOf(MatchedGroups(query.chars))
           /\ \A c \in Categories :
                HasKeyword(c, query.chars) <=> CategoryKeys[c] \subseteq DOMAIN context

C2_Witness ==
    /\ GatherDone
    /\ query.chars = <<"A", "r", "y", "a", "n">>
    /\ DOMAIN context = {"user_status", "individual_contribution"}

\* The places of SpecNameOrder whose name occurs in the text, in any letter case
NamesIn(text) == { i \in 1..Len(SpecNameOrder) : Contains(Lower(SpecNameOrder[i]), Lower(text)) }

FirstNameIn(text) == SpecNameOrder[CHOOSE i \in NamesIn(text) : \A j \in NamesIn(text) : i <= j]

\* C3: a query with one of the four names (any letter case, any position)
\* gathers the individual category for that name; with several names exactly
\* one individual is resolved, the first of Aryan, Ritwik, Mohak, Manu that
\* occurs, whatever the order of the names in the text.
C3_IndividualIsFirstNameInEnumerationOrder ==
    (GatherDone /\ NamesIn(query.chars) # {})
        => /\ resolved_name = FirstNameIn(query.chars)
           /\ CategoryKeys.individual \subseteq DOMAIN context
           /\ "get_user_status" \notin store_errors
                => context.user_status.name = FirstNameIn(query.chars)
           /\ "get_individual_contribution" \notin store_errors
                => context.individual_contribution
                     = GetIndividualContribution(store, FirstNameIn(query.chars), 0).value

C3_Witness ==
    /\ GatherDone
    /\ query.chars = Join(<< <<"M", "o", "h", "a", "k">>, <<"o", "r">>, <<"M", "a", "n", "u">>, <<"o", "r">>, <<"R", "i", "t", "w", "i", "k", "?">> >>)
    /\ resolved_name = <<"R", "i", "t", "w", "i", "k">>
    /\ store = PopulatedStore
    /\ store_errors = {}
    /\ context.individual_contribution.github.total_commits = 10

IsAryanBlocked == Join(<< <<"I", "s">>, <<"A", "r", "y", "a", "n">>, <<"b", "l", "o", "c", "k", "e", "d", "?">> >>)

IsAryanABlocker == Join(<< <<"i", "s">>, <<"a", "r", "y", "a", "n">>, <<"a">>, <<"b", "l", "o", "c", "k", "e", "r">>, <<"o", "n">>, <<"t", "h", "e">>, <<"s", "p", "r", "i", "n", "t", "?">> >>)

\* No contributor or ticket record of the store matches the name
NoRecordMatches(db, user_name) ==
    /\ \A i \in 1..Len(db.github) : ~Contains(Lower(user_name), Lower(db.github[i].name))
    /\ \A i \in 1..Len(db.jira) : ~Contains(Lower(user_name), Lower(db.jira[i].name))

\* C4 as stated: "Is Aryan blocked?" gathers exactly individual(Aryan) and
\* blockers.
C4_IsAryanBlockedGathersBlockers ==
    (GatherDone /\ query.chars = IsAryanBlocked)
        => DOMAIN context = KeysOf({"individual", "blockers"})

\* C4 as amended: "Is Aryan blocked?" gathers exactly individual(Aryan), with
\* no blockers entry ("blocked" contains no blocker keyword); when the store
\* has no record matching Aryan and its reads succeed, the individual
\* contribution is {status: user_not_found}. A query that does contain a
\* blocker keyword ("is aryan a blocker on the sprint?") gets its blockers
\* entry computed whatever the individual lookup found.
C4_IsAryanBlockedGathersIndividualOnly ==
    /\ (GatherDone /\ query.chars = IsAryanBlocked)
         => /\ DOMAIN context = KeysOf({"individual"})
            /\ resolved_name = <<"A", "r", "y", "a", "n">>
            /\ (NoRecordMatches(store, <<"A", "r", "y", "a", "n">>)
                  /\ "get_individual_contribution" \notin store_errors)
                 => context.individual_contribution = [status |-> "user_not_found"]
    /\ (GatherDone /\ query.chars = IsAryanABlocker)
         => /\ DOMAIN context = KeysOf({"individual", "blockers", "project_health"})
            /\ (NoRecordMatches(store, <<"A", "r", "y", "a", "n">>)
                  /\ "get_individual_contribution" \notin store_errors)
                 => context.individual_contribution = [status |-> "user_not_found"]
            /\ "get_blockers" \notin store_errors
                 => context.blockers = GetBlockers(store, 0).value

C4_Witness ==
    /\ GatherDone
    /\ query.chars = IsAryanBlocked
    /\ store = PopulatedStore
    /\ context.individual_contribution = [status |-> "user_not_found"]
    /\ "blockers" \notin DOMAIN context

\* process_query has returned
ProcessQueryDone == pc \in {"pq_done", "replied"} /\ endpoint \in {"query", "voice_chat"}
                    /\ query # NoQuery

\* The texts process_query can return
Texts == { GENERATED, QUOTA_HI, QUOTA_EN, FALLBACK_HI, FALLBACK_EN }

\* The error messages that carry a rate-limit status code or the word "quota"
RateLimitMessages ==
    { <<"E", "r", "r", "o", "r", " ", "c", "o", "d", "e", ":", " ", "4", "2", "9", " ", "-", " ", "r", "a", "t", "e", " ", "l", "i", "m", "i", "t", " ", "r", "e", "a", "c", "h", "e", "d">>,
      <<"Q", "u", "o", "t", "a", " ", "e", "x", "c", "e", "e", "d", "e", "d", " ", "f", "o", "r", " ", "m", "o", "d", "e", "l">>,
      <<"y", "o", "u", " ", "e", "x", "c", "e", "e", "d", "e", "d", " ", "y", "o", "u", "r", " ", "c", "u", "r", "r", "e", "n", "t", " ", "q", "u", "o", "t", "a">> }

\* C5: process_query always returns a text; a language-model failure whose
\* error carries 429 or the word "quota" yields the quota apology, never the
\* generic one, and every other failure of the call yields the generic apology.
C5_QuotaApologyOnRateLimit ==
    ProcessQueryDone
        => /\ response_text \in Texts
           /\ query.kind # "text" => response_text \in {FALLBACK_HI, FALLBACK_EN}
           /\ llm.kind = "text" => response_text = GENERATED
           /\ (llm.kind = "error" /\ llm.msg \in RateLimitMessages)
                => response_text \in {QUOTA_HI, QUOTA_EN}
           /\ (llm.kind = "no_content" \/ (llm.kind = "error" /\ llm.msg \notin RateLimitMessages))
                => response_text \in {FALLBACK_HI, FALLBACK_EN}

C5_Witness ==
    /\ pc = "pq_done"
    /\ llm.kind = "error"
    /\ llm.msg = <<"Q", "u", "o", "t", "a", " ", "e", "x", "c", "e", "e", "d", "e", "d", " ", "f", "o", "r", " ", "m", "o", "d", "e", "l">>
    /\ response_text = QUOTA_EN

\* What each store method returns when its except clause ran
Degraded ==
    [get_user_status |-> None,
     get_individual_contribution |-> [status |-> "error"],
     get_team_performance |-> <<>>,
     get_project_health |-> [status |-> "error"],
     get_blockers |-> <<>>]

\* What each store method returns for the store when no read fails
Computed(db, name) ==
    [get_user_status |-> GetUserStatus(db, name, 0).value,
     get_individual_contribution |-> GetIndividualContribution(db, name, 0).value,
     get_team_performance |-> GetTeamPerformance(db, 0).value,
     get_project_health |-> GetProjectHealth(db, 0).value,
     get_blockers |-> GetBlockers(db, 0).value]

\* The store method behind each context key
MethodOf ==
    [user_status |-> "get_user_status",
     individual_contribution |-> "get_individual_contribution",
     team_performance |-> "get_team_performance",
     project_health |-> "get_project_health",
     blockers |-> "get_blockers"]

\* The categories a query text asks for
Requested(text) ==
    IF MatchedGroups(text) = {} THEN {"team_performance", "project_health"}
    ELSE MatchedGroups(text)

\* C6: whichever store reads fail during a query, each failing category
\* degrades to its empty/default result, the other requested categories are
\* gathered from the store, and the language model is still called.
C6_StoreFailuresDegradeLocally ==
    (pc \in {"generate", "pq_done", "replied"} /\ query.kind = "text")
        => /\ DOMAIN context = KeysOf(Requested(query.chars))
           /\ \A k \in DOMAIN context :
                context[k] = IF MethodOf[k] \in store_errors
                             THEN Degraded[MethodOf[k]]
                             ELSE Computed(store, resolved_name)[MethodOf[k]]
           /\ pc # "generate" => (calls["llm"] = 1 /\ llm.kind # "none")

C6_Witness ==
    /\ pc = "pq_done"
    /\ query.kind = "text"
    /\ store = PopulatedStore
    /\ store_errors = {"get_user_status", "get_blockers"}
    /\ context.blockers = <<>>
    /\ context.project_health.status = "at_risk"
    /\ context.individual_contribution = [status |-> "user_not_found"]
    /\ llm.kind = "text"

\* The reads of each store method
ReadsOf ==
    [get_user_status |-> {"us_jira", "us_github", "us_tasks"},
     get_individual_contribution |-> {"ic_github", "ic_jira"},
     get_team_performance |-> {"tp_github", "tp_jira", "tp_tasks"},
     get_project_health |-> {"ph_tasks"},
     get_blockers |-> {"bl_filtered", "bl_tasks"}]

\* C7: in the handling of one request no external call is attempted twice,
\* so none is retried after a failure; the calls a finished request made, it
\* made exactly once: the reads of every store method that did not fail, the
\* language-model call of process_query (succeeding or failing), the
\* speech-to-text call of a voice chat, the text-to-speech call of a voice
\* chat or of a query with return_audio.
C7_EveryExternalCallOnce ==
    /\ \A s \in Sites : calls[s] <= 1
    /\ (ProcessQueryDone /\ query.kind = "text")
         => /\ calls["llm"] = 1
            /\ \A k \in DOMAIN context :
                 MethodOf[k] \notin store_errors
                   => \A s \in ReadsOf[MethodOf[k]] : calls[s] = 1
    /\ (pc = "replied" /\ endpoint = "voice_chat" /\ reply.code # 400)
         => /\ calls["stt"] = 1
            /\ calls["tts"] = (IF query = NoQuery THEN 0 ELSE 1)
    /\ (pc = "replied" /\ endpoint = "query" /\ reply.code # 400)
         => calls["tts"] = (IF return_audio THEN 1 ELSE 0)

C7_Witness ==
    /\ pc = "replied"
    /\ endpoint = "voice_chat"
    /\ llm.kind = "error"
    /\ tts = "exception"
    /\ "get_team_performance" \in store_errors
    /\ calls["llm"] = 1
    /\ calls["tts"] = 1
    /\ calls["tp_github"] = 1
    /\ calls["tp_jira"] = 1
    /\ calls["tp_tasks"] = 0

\* C8 as stated: a failed speech synthesis is never a hard failure: in the
\* query endpoint with audio requested and in the voice-chat flow alike, the
\* caller still receives the generated response text.
C8_SpeechFailureStillRepliesText ==
    (pc = "replied" /\ endpoint \in {"query", "voice_chat"}
       /\ tts \in {"http_error", "no_audio", "exception"})
        => /\ reply.code = 200
           /\ reply.response = response_text

\* Some collaborator is unavailable or misconfigured
Misconfigured ==
    ~env.sarvam_key \/ ~env.mongodb_uri \/ ~env.groq_key \/ ~env.store_up

\* C9 as stated: with any collaborator unavailable or misconfigured the
\* process has failed at startup (or is still starting) and serves no request.
C9_MisconfiguredNeverServes ==
    Misconfigured => pc \in {"init_sarvam", "init_mongodb", "init_insights", "crashed"}

\* The tasks of a blockers list
BlockerTasks(blockers) == { blockers[i].task : i \in 1..Len(blockers) }

\* C10: a completed task is never in overdue_tasks, never counted in
\* overdue_count, and never in the blockers output (as high_priority_pending
\* or as overdue), whatever its deadline and priority.
C10_CompletedNeverOverdueNorBlocker ==
    /\ (agg.op = "get_project_health" /\ "overdue_count" \in DOMAIN agg.out.value)
         => LET out == agg.out.value
                open == { i \in 1..Len(store.tasks) : store.tasks[i].status # "completed" }
            IN /\ \A i \in 1..Len(out.overdue_tasks) :
                    out.overdue_tasks[i].status # "completed"
               /\ out.overdue_count <= Cardinality(open)
               /\ out.overdue_count <= 5 => out.overdue_count = Len(out.overdue_tasks)
    /\ agg.op = "get_blockers"
         => \A t \in BlockerTasks(agg.out.value) : t.status # "completed"

C10_Witness ==
    /\ agg.op = "get_project_health"
    /\ Len(store.tasks) = 2
    /\ store.tasks[1].status = "completed"
    /\ store.tasks[1].priority = "critical"
    /\ store.tasks[1].deadline = [form |-> "native", t |-> 0]
    /\ store.tasks[2].status = "blocked"
    /\ "overdue_count" \in DOMAIN agg.out.value
    /\ agg.out.value.overdue_count = 1
    /\ agg.out.value.overdue_tasks[1].id = 2

\* ---------------------------------------------- the aggregators' contracts
\* The aggregator `op` has returned and none of its store reads failed
Aggregated(op) == agg.op = op /\ agg.fail = 0

\* The time a deadline denotes, for the deadlines that denote one
DenotesTime(task) == task.deadline.form \in {"native", "iso", "iso_z"}

\* Overdue as the specification defines it: the deadline is strictly before
\* the current time and the status is not completed
SpecOverdue(task) ==
    /\ DenotesTime(task)
    /\ task.deadline.t < Now
    /\ task.status # "completed"

\* High-priority pending as the specification defines it
SpecHighPriorityPending(task) ==
    /\ task.priority \in {"high", "critical"}
    /\ task.status \in {"pending", "blocked"}

\* Some deadline of the list is a string with a UTC offset ('Z')
HasOffsetDeadline(tasks) == \E i \in 1..Len(tasks) : tasks[i].deadline.form = "iso_z"

\* The blockers the specification describes: all high-priority-pending entries
\* in store order, then all overdue entries in store order, the first 10 kept
SpecBlockers(tasks) ==
    LET hp == SelectSeq(tasks, SpecHighPriorityPending)
        od == SelectSeq(tasks, SpecOverdue)
        all == [i \in 1..Len(hp) |-> [type |-> "high_priority_pending", task |-> hp[i], severity |-> "high"]]
               \o [i \in 1..Len(od) |-> [type |-> "overdue", task |-> od[i], severity |-> "medium"]]
    IN SubSeq(all, 1, IF Len(all) > 10 THEN 10 ELSE Len(all))

\* C11 as stated: for every task list the blockers output is the first 10
\* entries of (all high-priority-pending entries in store order, then all
\* overdue entries in store order): at most 10 entries, high-priority entries
\* first and not truncated on their own, a task of both categories once in each.
C11_BlockersAreFirstTenOfConcatenation ==
    Aggregated("get_blockers") => agg.out.value = SpecBlockers(store.tasks)

\* C11, the failing case: a high-priority pending task and a task whose
\* deadline carries 'Z'; the blockers output is empty.
C11_Witness ==
    /\ Aggregated("get_blockers")
    /\ Len(store.tasks) = 2
    /\ SpecHighPriorityPending(store.tasks[1])
    /\ store.tasks[2].deadline.form = "iso_z"
    /\ agg.out.value = <<>>

\* C11 on the task lists none of whose deadlines carries an offset: there the
\* blockers output is the first 10 entries of the concatenation.
C11_FirstTenWhereDeadlinesCompare ==
    (Aggregated("get_blockers") /\ ~HasOffsetDeadline(store.tasks))
        => agg.out.value = SpecBlockers(store.tasks)

\* The truncation happens: 10 or more high-priority entries and an overdue task
C11_TruncationReached ==
    /\ Aggregated("get_blockers")
    /\ Len(SelectSeq(store.tasks, SpecHighPriorityPending)) > 10
    /\ Len(SelectSeq(store.tasks, SpecOverdue)) > 0
    /\ Len(agg.out.value) = 10
    /\ \A i \in 1..10 : agg.out.value[i].type = "high_priority_pending"

\* The number of tasks of a list with status st
NumberWithStatus(tasks, st) == Cardinality({ i \in 1..Len(tasks) : tasks[i].status = st })

\* The status the specification gives a task list: no_data for no task,
\* on_track when completed/total x 100 is strictly above 60, at_risk otherwise
SpecHealthStatus(tasks) ==
    IF Len(tasks) = 0 THEN "no_data"
    ELSE IF NumberWithStatus(tasks, "completed") * 100 > 60 * Len(tasks) THEN "on_track"
    ELSE "at_risk"

\* C12 as stated: for every task list the status of projectHealth is "no_data",
\* with no other field, exactly when there is no task; otherwise "on_track" if
\* and only if completed/total x 100 > 60, and "at_risk" otherwise.
C12_StatusByCompletion ==
    Aggregated("get_project_health")
        => /\ agg.out.value.status = SpecHealthStatus(store.tasks)
           /\ agg.out.value.status = "no_data" => DOMAIN agg.out.value = {"status"}

\* C12, the failing case: one task, not completed, whose deadline carries 'Z';
\* the status is "error".
C12_Witness ==
    /\ Aggregated("get_project_health")
    /\ Len(store.tasks) = 1
    /\ store.tasks[1].status = "pending"
    /\ store.tasks[1].deadline.form = "iso_z"
    /\ agg.out.value = [status |-> "error"]

\* C12 on the task lists none of whose deadlines carries an offset
C12_StatusWhereDeadlinesCompare ==
    (Aggregated("get_project_health") /\ ~HasOffsetDeadline(store.tasks))
        => /\ agg.out.value.status = SpecHealthStatus(store.tasks)
           /\ agg.out.value.status = "no_data" => DOMAIN agg.out.value = {"status"}

\* A completion of exactly 60 happens: 3 of 5 tasks completed, at_risk
C12_BoundaryReached ==
    /\ Aggregated("get_project_health")
    /\ Len(store.tasks) = 5
    /\ NumberWithStatus(store.tasks, "completed") = 3
    /\ agg.out.value.status = "at_risk"
    /\ agg.out.value.completion_percentage = [num |-> 300, den |-> 5]

\* The overdue tasks of a list as the specification defines them, in store order
SpecOverdueTasks(tasks) == SelectSeq(tasks, SpecOverdue)

\* What projectHealth reports of the overdue tasks matches the specification
OverdueReported(out, tasks) ==
    LET od == SpecOverdueTasks(tasks) IN
    /\ "overdue_count" \in DOMAIN out
    /\ out.overdue_count = Len(od)
    /\ out.overdue_tasks = SubSeq(od, 1, IF Len(od) > 5 THEN 5 ELSE Len(od))

\* C13 as stated: for every (non-empty) task list whose read succeeds,
\* overdue_count is the number of tasks with a deadline strictly before the
\* current time and a status other than completed, and overdue_tasks the first
\* min(5, overdue_count) of them in store order, whatever form the deadlines
\* take; a task with an uninterpretable deadline is skipped.
C13_OverdueWhateverDeadlineForm ==
    (Aggregated("get_project_health") /\ store.tasks # <<>>)
        => OverdueReported(agg.out.value, store.tasks)

\* C13, the failing case: an overdue task with a native deadline and a task
\* whose deadline is an ISO string with a trailing 'Z'; no overdue_count.
C13_Witness ==
    /\ Aggregated("get_project_health")
    /\ Len(store.tasks) = 2
    /\ store.tasks[1].deadline = [form |-> "native", t |-> 0]
    /\ store.tasks[1].status = "pending"
    /\ store.tasks[2].deadline.form = "iso_z"
    /\ agg.out.value = [status |-> "error"]

\* C13 on the task lists none of whose deadlines carries an offset
C13_OverdueWhereDeadlinesCompare ==
    (Aggregated("get_project_health") /\ store.tasks # <<>> /\ ~HasOffsetDeadline(store.tasks))
        => OverdueReported(agg.out.value, store.tasks)

\* More than 5 overdue tasks, an unparseable deadline among the tasks
C13_SampleReached ==
    /\ Aggregated("get_project_health")
    /\ \E i \in 1..Len(store.tasks) : store.tasks[i].deadline.form = "bad"
    /\ "overdue_count" \in DOMAIN agg.out.value
    /\ agg.out.value.overdue_count > 5
    /\ Len(agg.out.value.overdue_tasks) = 5

\* The commit count of a contributor record, a missing count being 0
CommitsOf(c) == IF "total_commits" \in DOMAIN c THEN c.total_commits ELSE 0

\* C14: top_contributors has min(5, number of contributors) entries, all of
\* them contributor records of the store, in non-increasing order of commit
\* count (a missing count is 0); no contributor left out has more commits than
\* one that is in; contributors of equal count keep their store order, within
\* the list and against those left out.
C14_TopContributorsStableDescending ==
    Aggregated("get_team_performance")
        => LET top == agg.out.value.top_contributors
               n == Len(store.github)
               in_top == { top[i].id : i \in 1..Len(top) }
           IN /\ Len(top) = IF n < 5 THEN n ELSE 5
              /\ \A i \in 1..Len(top) : top[i].id \in 1..n /\ top[i] = store.github[top[i].id]
              /\ \A i, j \in 1..Len(top) :
                   i < j => /\ CommitsOf(top[i]) >= CommitsOf(top[j])
                            /\ CommitsOf(top[i]) = CommitsOf(top[j]) => top[i].id < top[j].id
              /\ \A x \in (1..n) \ in_top : \A y \in in_top :
                   /\ CommitsOf(store.github[y]) >= CommitsOf(store.github[x])
                   /\ CommitsOf(store.github[y]) = CommitsOf(store.github[x]) => y < x

\* Six contributors; the second has the most commits, the first has no count
\* and ties with the third (0) and is kept before it; the tied last is cut.
C14_Witness ==
    /\ Aggregated("get_team_performance")
    /\ Len(store.github) = 6
    /\ store.github[1] = [id |-> 1]
    /\ store.github[2] = [id |-> 2, total_commits |-> 2]
    /\ store.github[3] = [id |-> 3, total_commits |-> 0]
    /\ CommitsOf(store.github[6]) = 0
    /\ LET top == agg.out.value.top_contributors
       IN /\ Len(top) = 5
          /\ top[1].id = 2
          /\ \E i \in 1..4 : top[i].id = 1 /\ top[i + 1].id = 3
          /\ \A i \in 1..5 : top[i].id # 6

\* A case-insensitive partial match of a name in a text
PartialMatch(name, text) ==
    \E k \in 0..(Len(text) - Len(name)) :
        \A i \in 1..Len(name) : LowerChar(text[k + i]) = LowerChar(name[i])

\* The places of a collection whose record matches the name
MatchesIn(coll, name) == { i \in 1..Len(coll) : PartialMatch(name, coll[i].name) }

\* The first n items of a sequence
FirstOf(seq, n) == SubSeq(seq, 1, IF Len(seq) < n THEN Len(seq) ELSE n)

\* The least of a non-empty set of places
Least(S) == CHOOSE i \in S : \A j \in S : i <= j

\* C15: individualContribution returns {status: "user_not_found"} if and only
\* if neither the contributor records nor the ticket records hold a
\* case-insensitive partial match of the name; otherwise the result carries,
\* for each source that matches, the data of its (first) matching record with
\* samples of at most 5 items, and an empty entry for a source without a match.
C15_UserNotFoundIffNoSourceMatches ==
    Aggregated("get_individual_contribution")
        => LET out == agg.out.value
               gm == MatchesIn(store.github, agg.user_name)
               jm == MatchesIn(store.jira, agg.user_name)
           IN /\ (out = [status |-> "user_not_found"]) <=> (gm = {} /\ jm = {})
              /\ (gm # {} \/ jm # {})
                   => /\ DOMAIN out = {"name", "github", "jira"}
                      /\ out.name = agg.user_name
                      /\ gm = {} => out.github = <<>>
                      /\ jm = {} => out.jira = <<>>
                      /\ gm # {}
                           => LET g == store.github[Least(gm)]
                              IN /\ out.github.total_commits = g.total_commits
                                 /\ out.github.lines_added = g.total_lines_added
                                 /\ out.github.recent_commits = FirstOf(g.commits, 5)
                                 /\ Len(out.github.recent_commits) <= 5
                      /\ jm # {}
                           => LET t == store.jira[Least(jm)].tickets
                              IN /\ out.jira.total_tickets = Len(t)
                                 /\ out.jira.completed
                                      = Cardinality({ i \in 1..Len(t) : t[i].status = "Done" })
                                 /\ out.jira.in_progress
                                      = Cardinality({ i \in 1..Len(t) : t[i].status = "In Progress" })
                                 /\ out.jira.recent_tickets = FirstOf(t, 5)
                                 /\ Len(out.jira.recent_tickets) <= 5

\* "Aryan" against a store whose second contributor record is "ARYAN k" with
\* six commits and whose ticket records do not match: github data with a sample
\* of 5, an empty jira entry.
C15_Witness ==
    /\ Aggregated("get_individual_contribution")
    /\ agg.user_name = <<"A", "r", "y", "a", "n">>
    /\ Len(store.github) = 2
    /\ store.github[1].name = <<"B", "o", "b">>
    /\ store.github[2].name = <<"A", "R", "Y", "A", "N", " ", "k">>
    /\ Len(store.github[2].commits) = 6
    /\ Len(store.jira) = 1
    /\ store.jira[1].name = <<"R", "i", "t", "w", "i", "k", " ", "M">>
    /\ agg.out.value.jira = <<>>
    /\ agg.out.value.github.recent_commits = <<1, 2, 3, 4, 5>>

\* No record matches "Mohak" in a store with records: user_not_found
C15_NotFoundReached ==
    /\ Aggregated("get_individual_contribution")
    /\ agg.user_name = <<"M", "o", "h", "a", "k">>
    /\ Len(store.github) = 2
    /\ Len(store.jira) = 2
    /\ agg.out.value = [status |-> "user_not_found"]

\* C16 as stated: in teamPerformance and in projectHealth the completed,
\* in_progress and pending counts partition the tasks read: every task is in
\* exactly one of the three counts, so their sum is the reported total.
C16_CountsPartitionTasks ==
    /\ Aggregated("get_team_performance")
         => LET t == agg.out.value.tasks
            IN /\ t.total = Len(store.tasks)
               /\ t.completed + t.in_progress + t.pending = t.total
    /\ (Aggregated("get_project_health") /\ "total_tasks" \in DOMAIN agg.out.value)
         => LET h == agg.out.value
            IN /\ h.total_tasks = Len(store.tasks)
               /\ h.completed + h.in_progress + h.pending = h.total_tasks

\* C16, the failing case: teamPerformance over one blocked task counts it in
\* the total and in none of the three counts.
C16_Witness ==
    /\ Aggregated("get_team_performance")
    /\ Len(store.tasks) = 1
    /\ store.tasks[1].status = "blocked"
    /\ agg.out.value.tasks = [completed |-> 0, in_progress |-> 0, pending |-> 0, total |-> 1]

\* What the three counts are: each the number of tasks of its status, their
\* sum the total less the blocked tasks
C16_CountsPerStatus ==
    /\ Aggregated("get_team_performance")
         => LET t == agg.out.value.tasks
            IN /\ t.completed = NumberWithStatus(store.tasks, "completed")
               /\ t.in_progress = NumberWithStatus(store.tasks, "in_progress")
               /\ t.pending = NumberWithStatus(store.tasks, "pending")
               /\ t.completed + t.in_progress + t.pending
                    = t.total - NumberWithStatus(store.tasks, "blocked")
    /\ (Aggregated("get_project_health") /\ "total_tasks" \in DOMAIN agg.out.value)
         => LET h == agg.out.value
            IN /\ h.completed = NumberWithStatus(store.tasks, "completed")
               /\ h.in_progress = NumberWithStatus(store.tasks, "in_progress")
               /\ h.pending = NumberWithStatus(store.tasks, "pending")
               /\ h.completed + h.in_progress + h.pending
                    = h.total_tasks - NumberWithStatus(store.tasks, "blocked")

\* The language codes that denote Hindi
DenotesHindi(code) == code \in { <<"h", "i">>, <<"h", "i", "-", "I", "N">> }

\* process_query has returned one of its apologies
Apologised == ProcessQueryDone /\ response_text \in Texts \ {GENERATED}

\* C17 as stated: for every language code a caller can pass (en, hi, en-IN,
\* hi-IN) the generic apology and the quota apology are in the same language:
\* Hindi for a code that denotes Hindi, English otherwise.
C17_ApologyLanguageConsistent ==
    Apologised => (response_text \in {QUOTA_HI, FALLBACK_HI} <=> DenotesHindi(lang))

\* C17, the failing case: the query endpoint called with language hi-IN, the
\* language-model call failing with an error that is no rate limit; the
\* apology is the English one.
C17_Witness ==
    /\ Apologised
    /\ endpoint = "query"
    /\ lang = <<"h", "i", "-", "I", "N">>
    /\ llm = [kind |-> "error", msg |-> <<"C", "o", "n", "n", "e", "c", "t", "i", "o", "n", " ", "e", "r", "r", "o", "r", ".">>]
    /\ response_text = FALLBACK_EN

\* With hi-IN the quota apology is the Hindi one
C17_QuotaHindiReached ==
    /\ Apologised
    /\ endpoint = "query"
    /\ lang = <<"h", "i", "-", "I", "N">>
    /\ response_text = QUOTA_HI

\* For the codes en and hi, and in every voice chat (which passes the part of
\* the code before '-'), both apologies follow the language.
C17_ConsistentForShortCodes ==
    /\ (Apologised /\ lang \in { <<"e", "n">>, <<"h", "i">> })
         => (response_text \in {QUOTA_HI, FALLBACK_HI} <=> lang = <<"h", "i">>)
    /\ (Apologised /\ endpoint = "voice_chat")
         => /\ lang \in { <<"e", "n">>, <<"h", "i">> }
            /\ lang = <<"h", "i">> <=> language = <<"h", "i", "-", "I", "N">>
====
